---- MODULE Spec2Model ----
(***************************************************************************)
(* The blink-detection frame loop of 449trackers: src/main.py (pointer and *)
(* keyboard logger) and src/xbox.py (gamepad logger).                      *)
(*                                                                         *)
(* Units.  An eye aspect ratio is an integer number of 1/6000: 0.01 is 60, *)
(* so the mean of up to six samples that are whole hundredths is exact.    *)
(* A clock reading is an integer number of 0.05 s ticks (the loop's        *)
(* time.sleep(0.05)), so MIN_CLOSE_DURATION = 0.10 s is 2.                 *)
(***************************************************************************)
EXTENDS Integers, Sequences, FiniteSets, TLC

\* ---------------------------------------------------------------- bounds
MaxIter == 2        \* frames acquired in one run
MaxFaces == 2       \* faces the detector returns for one frame
MaxTime == 2        \* largest clock reading
MaxHeld == 2        \* inputs held at once when the sampler is explored
MaxSamples == 7     \* samples inserted when the smoothing filter is explored

\* ------------------------------------------------------ program constants
DefaultWindow == 5      \* SMOOTHING_WINDOW = 5
DefaultMinClose == 2    \* MIN_CLOSE_DURATION = 0.10 (two 0.05 s ticks)
VK_LBUTTON == 1
VK_RBUTTON == 2

Hundredths(x) == x * 60
EAR_THRESHOLD == Hundredths(25)

\* What dividing by a zero eye width gives (the distances are numpy floats,
\* so the division warns and yields a value): x / 0 for x > 0, and 0 / 0.
\* Every other ratio is >= 0.
inf == -1
nan == -2

\* An optional value: None, or <<v>>.
None == <<>>
Some(v) == <<v>>

key_map ==
  << <<87, "W">>, <<65, "A">>, <<83, "S">>, <<68, "D">>, <<82, "R">>,
     <<67, "C">>, <<16, "Shift">>, <<17, "Ctrl">>, <<18, "Alt">>,
     <<32, "Space">>, <<27, "Esc">>, <<49, "1">>, <<50, "2">>,
     <<51, "3">>, <<52, "4">> >>

controller_map ==
  << <<0, "A">>, <<1, "B">>, <<2, "X">>, <<3, "Y">>, <<8, "LB">>,
     <<9, "RB">>, <<10, "LT">>, <<11, "RT">>, <<12, "L3">>, <<13, "R3">> >>

VARIABLES
  variant,             \* which entry point runs: "kbmouse" or "gamepad"
  joystick_count,      \* pygame.joystick.get_count() at startup
  MIN_CLOSE_DURATION,  \* configured minimum closed duration, in ticks
  SMOOTHING_WINDOW,    \* configured capacity of ear_buffer
  pc,                  \* the worker's position in track_actions
  cap,                 \* the capture device: "none", "open", "released"
  log_file,            \* the log file handle: "none", "open", "closed"
  log,                 \* the records appended to the log file
  frames,              \* number of frames acquired (cap.read() returned ret)
  faces,               \* per-face avg_ear of the faces still to process
  nfaces,              \* len(faces) of the current frame
  blink_state,         \* 0 = open, 1 = closed
  close_start_time,    \* None or Some(clock reading)
  blink_count,
  ear_buffer,          \* the deque, oldest first
  smoothed_ear,        \* None or Some(last smoothed ratio)
  now,                 \* None or Some(last value time.time() returned)
  held,                \* input codes held down when the sampler last ran
  action,              \* the action label
  key_q,               \* a 'q' key press is waiting for cv2.waitKey
  samples              \* every sample inserted (smoothing filter exploration)

vars == << variant, joystick_count, MIN_CLOSE_DURATION, SMOOTHING_WINDOW, pc,
           cap, log_file, log, frames, faces, nfaces, blink_state,
           close_start_time, blink_count, ear_buffer, smoothed_ear, now,
           held, action, key_q, samples >>

config == << variant, joystick_count, MIN_CLOSE_DURATION, SMOOTHING_WINDOW >>
detector_vars == << blink_state, close_start_time, blink_count, ear_buffer,
                    smoothed_ear, now >>

Times == 0..MaxTime
Ratios == {Hundredths(18), Hundredths(32)}

RECURSIVE SeqsUpTo(_, _)
SeqsUpTo(S, n) ==
  IF n = 0 THEN {<<>>}
  ELSE LET shorter == SeqsUpTo(S, n - 1)
       IN shorter \cup {Append(q, x) : q \in {r \in shorter : Len(r) = n - 1}, x \in S}

RECURSIVE SetsUpTo(_, _)
SetsUpTo(S, n) ==
  IF n = 0 THEN {{}}
  ELSE LET smaller == SetsUpTo(S, n - 1)
       IN smaller \cup {h \cup {x} : h \in smaller, x \in S}

Codes(map) == {map[i][1] : i \in 1..Len(map)}

\* ------------------------------------------------------ smoothing filter
\* Float addition, division by a positive count, and comparison.
FAdd(a, b) ==
  IF a = nan \/ b = nan THEN nan
  ELSE IF a = inf \/ b = inf THEN inf
  ELSE a + b

FDiv(a, n) == IF a = nan \/ a = inf THEN a ELSE a \div n

Less(a, b) ==
  /\ a # nan
  /\ b # nan
  /\ a # inf
  /\ (b = inf \/ a < b)

Greater(a, b) == Less(b, a)

\* calculate_ear on an eye given by its three distances A, B, C (pixels).
CalculateEar(eye) ==
  IF eye.C = 0
  THEN IF eye.A + eye.B = 0 THEN nan ELSE inf
  ELSE ((eye.A + eye.B) * Hundredths(100)) \div (2 * eye.C)

\* avg_ear = (left_ear + right_ear) / 2.0
AvgEar(left_eye, right_eye) ==
  FDiv(FAdd(CalculateEar(left_eye), CalculateEar(right_eye)), 2)

RECURSIVE SumSeq(_)
SumSeq(q) == IF q = <<>> THEN 0 ELSE FAdd(Head(q), SumSeq(Tail(q)))

\* DequeAppend without a capacity.
DequeAppendUnbounded(buf, x, maxlen) == Append(buf, x)

\* DequeAppend that drops the new sample instead of the oldest when full.
DequeAppendKeepOldest(buf, x, maxlen) ==
  IF Len(buf) >= maxlen THEN buf ELSE Append(buf, x)

\* deque(maxlen).append(x): the oldest sample is dropped when full.
DequeAppend(buf, x, maxlen) ==
  IF Len(buf) >= maxlen THEN Append(Tail(buf), x) ELSE Append(buf, x)

\* sum(ear_buffer) / len(ear_buffer)
Mean(buf) == FDiv(SumSeq(buf), Len(buf))

\* -------------------------------------------------------- blink detector
\* RiseAndFall with the closing comparison made inclusive.
RiseAndFallInclusive(bs, cst, cnt, s, t, minclose) ==
  IF s <= EAR_THRESHOLD /\ bs = 0
  THEN [blink_state |-> 1, close_start_time |-> Some(t), blink_count |-> cnt,
        read |-> TRUE]
  ELSE IF s > EAR_THRESHOLD /\ bs = 1
  THEN [blink_state |-> 0, close_start_time |-> None,
        blink_count |-> IF cst # None /\ t - cst[1] >= minclose
                        THEN cnt + 1 ELSE cnt,
        read |-> cst # None]
  ELSE [blink_state |-> bs, close_start_time |-> cst, blink_count |-> cnt,
        read |-> FALSE]

\* RiseAndFall where a closure that was too short takes a blink back.
RiseAndFallTakeBack(bs, cst, cnt, s, t, minclose) ==
  IF s < EAR_THRESHOLD /\ bs = 0
  THEN [blink_state |-> 1, close_start_time |-> Some(t), blink_count |-> cnt,
        read |-> TRUE]
  ELSE IF s > EAR_THRESHOLD /\ bs = 1
  THEN [blink_state |-> 0, close_start_time |-> None,
        blink_count |-> IF cst # None /\ t - cst[1] >= minclose
                        THEN cnt + 1 ELSE cnt - 1,
        read |-> cst # None]
  ELSE [blink_state |-> bs, close_start_time |-> cst, blink_count |-> cnt,
        read |-> FALSE]

\* RiseAndFall that restarts the closing time at every sample that keeps
\* the state CLOSED.
RiseAndFallRestart(bs, cst, cnt, s, t, minclose) ==
  IF s < EAR_THRESHOLD /\ bs = 0
  THEN [blink_state |-> 1, close_start_time |-> Some(t), blink_count |-> cnt,
        read |-> TRUE]
  ELSE IF s > EAR_THRESHOLD /\ bs = 1
  THEN [blink_state |-> 0, close_start_time |-> None,
        blink_count |-> IF cst # None /\ t - cst[1] >= minclose
                        THEN cnt + 1 ELSE cnt,
        read |-> cst # None]
  ELSE [blink_state |-> bs,
        close_start_time |-> IF bs = 1 THEN Some(t) ELSE cst,
        blink_count |-> cnt, read |-> bs = 1]

\* RiseAndFall that leaves close_start_time in place when the eyes reopen.
RiseAndFallKeepStart(bs, cst, cnt, s, t, minclose) ==
  IF s < EAR_THRESHOLD /\ bs = 0
  THEN [blink_state |-> 1, close_start_time |-> Some(t), blink_count |-> cnt,
        read |-> TRUE]
  ELSE IF s > EAR_THRESHOLD /\ bs = 1
  THEN [blink_state |-> 0, close_start_time |-> cst,
        blink_count |-> IF cst # None /\ t - cst[1] >= minclose
                        THEN cnt + 1 ELSE cnt,
        read |-> cst # None]
  ELSE [blink_state |-> bs, close_start_time |-> cst, blink_count |-> cnt,
        read |-> FALSE]

\* The rise-and-fall logic of src/main.py on smoothed ratio s; t is what
\* time.time() returns if it is called.
RiseAndFall(bs, cst, cnt, s, t, minclose) ==
  IF Less(s, EAR_THRESHOLD) /\ bs = 0
  THEN [blink_state |-> 1, close_start_time |-> Some(t), blink_count |-> cnt,
        read |-> TRUE]
  ELSE IF Greater(s, EAR_THRESHOLD) /\ bs = 1
  THEN [blink_state |-> 0, close_start_time |-> None,
        blink_count |-> IF cst # None /\ t - cst[1] >= minclose
                        THEN cnt + 1 ELSE cnt,
        read |-> cst # None]
  ELSE [blink_state |-> bs, close_start_time |-> cst, blink_count |-> cnt,
        read |-> FALSE]

\* RiseAndFallPad with a strict duration comparison.
RiseAndFallPadStrict(bs, cst, cnt, s, t, minclose) ==
  IF s < EAR_THRESHOLD /\ bs = 0
  THEN [blink_state |-> 1, close_start_time |-> Some(t), blink_count |-> cnt,
        read |-> TRUE]
  ELSE IF s > EAR_THRESHOLD /\ bs = 1
  THEN [blink_state |-> 0, close_start_time |-> None,
        blink_count |-> IF cst # None /\ t - cst[1] > minclose
                        THEN cnt + 1 ELSE cnt,
        read |-> cst # None]
  ELSE [blink_state |-> bs, close_start_time |-> cst, blink_count |-> cnt,
        read |-> FALSE]

\* The same logic as written in src/xbox.py.
RiseAndFallPad(bs, cst, cnt, s, t, minclose) ==
  IF Less(s, EAR_THRESHOLD) /\ bs = 0
  THEN [blink_state |-> 1, close_start_time |-> Some(t), blink_count |-> cnt,
        read |-> TRUE]
  ELSE IF Greater(s, EAR_THRESHOLD) /\ bs = 1
  THEN [blink_state |-> 0, close_start_time |-> None,
        blink_count |-> IF cst # None /\ t - cst[1] >= minclose
                        THEN cnt + 1 ELSE cnt,
        read |-> cst # None]
  ELSE [blink_state |-> bs, close_start_time |-> cst, blink_count |-> cnt,
        read |-> FALSE]

\* ------------------------------------------------------- action sampler
\* for vk, name in key_map.items(): if GetKeyState(vk) < 0: action = name
RECURSIVE KeyScan(_, _, _)
KeyScan(h, i, act) ==
  IF i > Len(key_map) THEN act
  ELSE KeyScan(h, i + 1, IF key_map[i][1] \in h THEN key_map[i][2] ELSE act)

\* SampleKbMouse with the key scan no longer under the else of the clicks.
SampleKbMouseKeysLast(h) ==
  KeyScan(h, 1, IF VK_LBUTTON \in h THEN "Left Click"
                ELSE IF VK_RBUTTON \in h THEN "Right Click"
                ELSE "None")

SampleKbMouse(h) ==
  IF VK_LBUTTON \in h THEN "Left Click"
  ELSE IF VK_RBUTTON \in h THEN "Right Click"
  ELSE KeyScan(h, 1, "None")

\* for button_id in controller_map: if get_button(button_id): ...; break
RECURSIVE ButtonScan(_, _)
ButtonScan(h, i) ==
  IF i > Len(controller_map) THEN "None"
  ELSE IF controller_map[i][1] \in h THEN controller_map[i][2]
  ELSE ButtonScan(h, i + 1)

\* SampleGamepad without the break: the last held button wins.
RECURSIVE ButtonScanNoBreak(_, _, _)
ButtonScanNoBreak(h, i, act) ==
  IF i > Len(controller_map) THEN act
  ELSE ButtonScanNoBreak(h, i + 1, IF controller_map[i][1] \in h
                                   THEN controller_map[i][2] ELSE act)

SampleGamepadNoBreak(h) == ButtonScanNoBreak(h, 1, "None")

SampleGamepad(h) == ButtonScan(h, 1)

\* Every input code the pointer/keyboard sampler queries, and every button
\* of the gamepad (identifiers 4..7 are buttons the map does not name).
KbCodes == {VK_LBUTTON, VK_RBUTTON} \cup Codes(key_map)
PadCodes == 0..13

\* Input states drawn while the frame loop is explored.
LoopKbHeld == {{}, {key_map[1][1]}}
LoopPadHeld == {{}, {controller_map[1][1]}}

\* ------------------------------------------------------------ frame loop
Init ==
  /\ variant \in {"kbmouse", "gamepad"}
  /\ joystick_count \in IF variant = "gamepad" THEN {0, 1} ELSE {0}
  /\ MIN_CLOSE_DURATION \in {0, DefaultMinClose}
  /\ SMOOTHING_WINDOW = DefaultWindow
  /\ pc = "start"
  /\ cap = "none"
  /\ log_file = "none"
  /\ log = <<>>
  /\ frames = 0
  /\ faces = <<>>
  /\ nfaces = 0
  /\ blink_state = 0
  /\ close_start_time = None
  /\ blink_count = 0
  /\ ear_buffer = <<>>
  /\ smoothed_ear = None
  /\ now = None
  /\ held = {}
  /\ action = "None"
  /\ key_q = FALSE
  /\ samples = <<>>

\* xbox.py: no controller connected, track_actions returns at once.
NoController ==
  /\ pc = "start"
  /\ variant = "gamepad"
  /\ joystick_count = 0
  /\ pc' = "returned"
  /\ UNCHANGED << config, key_q, cap, log_file, log, frames, faces, nfaces,
                  detector_vars, held, action, samples >>

\* Start without the joystick check.
StartUnchecked ==
  /\ pc = "start"
  /\ cap' = "open"
  /\ log_file' = "open"
  /\ pc' = "read"
  /\ UNCHANGED << config, key_q, log, frames, faces, nfaces, detector_vars,
                  held, action, samples >>

\* cap = cv2.VideoCapture(0); with open(LOG_FILE, "a") as log_file:
Start ==
  /\ pc = "start"
  /\ variant = "gamepad" => joystick_count > 0
  /\ cap' = "open"
  /\ log_file' = "open"
  /\ pc' = "read"
  /\ UNCHANGED << config, key_q, log, frames, faces, nfaces, detector_vars, held,
                  action, samples >>

\* ReadFrame that resets the detector when the frame shows no face.
ReadFrameReset ==
  /\ pc = "read"
  /\ frames < MaxIter
  /\ \E fs \in SeqsUpTo(Ratios, MaxFaces) :
       /\ faces' = fs
       /\ nfaces' = Len(fs)
       /\ IF fs = <<>>
          THEN /\ blink_state' = 0
               /\ close_start_time' = None
               /\ ear_buffer' = <<>>
               /\ UNCHANGED << blink_count, smoothed_ear, now >>
          ELSE UNCHANGED detector_vars
  /\ frames' = frames + 1
  /\ pc' = "faces"
  /\ UNCHANGED << config, key_q, cap, log_file, log, held, action, samples >>

\* ret, frame = cap.read() succeeded; faces = detector(gray).  The frame
\* shows one of `inputs` (per face, the avg_ear its landmarks give); at most
\* `limit` frames are read.
ReadFrameFrom(inputs, limit) ==
  /\ pc = "read"
  /\ frames < limit
  /\ \E fs \in inputs :
       /\ faces' = fs
       /\ nfaces' = Len(fs)
  /\ frames' = frames + 1
  /\ pc' = "faces"
  /\ UNCHANGED << config, key_q, cap, log_file, log, detector_vars, held, action,
                  samples >>

ReadFrame == ReadFrameFrom(SeqsUpTo(Ratios, MaxFaces), MaxIter)

\* ReadFail that goes on with the iteration instead of breaking.
ReadFailGoesOn ==
  /\ pc = "read"
  /\ faces' = <<>>
  /\ nfaces' = 0
  /\ pc' = "faces"
  /\ UNCHANGED << config, key_q, cap, log_file, log, frames, detector_vars,
                  held, action, samples >>

\* if not ret: break; the with block closes the file; cap.release()
ReadFail ==
  /\ pc = "read"
  /\ log_file' = "closed"
  /\ cap' = "released"
  /\ pc' = "done"
  /\ UNCHANGED << config, key_q, log, frames, faces, nfaces, detector_vars, held,
                  action, samples >>

\* ProcessFaceAt that drops every face of the frame but the last one.
ProcessFaceAtLastOnly(times) ==
  /\ pc = "faces"
  /\ faces # <<>>
  /\ IF Len(faces) > 1
     THEN UNCHANGED << detector_vars >>
     ELSE LET avg_ear == Head(faces)
              buf == DequeAppend(ear_buffer, avg_ear, SMOOTHING_WINDOW)
              s == Mean(buf)
          IN /\ ear_buffer' = buf
             /\ smoothed_ear' = Some(s)
             /\ \E t \in times :
                  LET r == IF variant = "kbmouse"
                           THEN RiseAndFall(blink_state, close_start_time,
                                            blink_count, s, t,
                                            MIN_CLOSE_DURATION)
                           ELSE RiseAndFallPad(blink_state, close_start_time,
                                               blink_count, s, t,
                                               MIN_CLOSE_DURATION)
                  IN /\ blink_state' = r.blink_state
                     /\ close_start_time' = r.close_start_time
                     /\ blink_count' = r.blink_count
                     /\ now' = IF r.read THEN Some(t) ELSE now
  /\ faces' = Tail(faces)
  /\ UNCHANGED << config, key_q, pc, cap, log_file, log, frames, nfaces, held,
                  action, samples >>

\* ProcessFaceAt that does not move on to the next face.
ProcessFaceAtStay(times) ==
  /\ pc = "faces"
  /\ faces # <<>>
  /\ LET avg_ear == Head(faces)
         buf == DequeAppend(ear_buffer, avg_ear, SMOOTHING_WINDOW)
         s == Mean(buf)
     IN /\ ear_buffer' = buf
        /\ smoothed_ear' = Some(s)
        /\ \E t \in times :
             LET r == IF variant = "kbmouse"
                      THEN RiseAndFall(blink_state, close_start_time,
                                       blink_count, s, t, MIN_CLOSE_DURATION)
                      ELSE RiseAndFallPad(blink_state, close_start_time,
                                          blink_count, s, t, MIN_CLOSE_DURATION)
             IN /\ blink_state' = r.blink_state
                /\ close_start_time' = r.close_start_time
                /\ blink_count' = r.blink_count
                /\ now' = IF r.read THEN Some(t) ELSE now
  /\ UNCHANGED << config, key_q, pc, cap, log_file, log, frames, faces, nfaces,
                  held, action, samples >>

\* One pass of the body of `for face in faces`; time.time() returns one of
\* `times`.
ProcessFaceAt(times) ==
  /\ pc = "faces"
  /\ faces # <<>>
  /\ LET avg_ear == Head(faces)
         buf == DequeAppend(ear_buffer, avg_ear, SMOOTHING_WINDOW)
         s == Mean(buf)
     IN /\ ear_buffer' = buf
        /\ smoothed_ear' = Some(s)
        /\ \E t \in times :
             LET r == IF variant = "kbmouse"
                      THEN RiseAndFall(blink_state, close_start_time,
                                       blink_count, s, t, MIN_CLOSE_DURATION)
                      ELSE RiseAndFallPad(blink_state, close_start_time,
                                          blink_count, s, t, MIN_CLOSE_DURATION)
             IN /\ blink_state' = r.blink_state
                /\ close_start_time' = r.close_start_time
                /\ blink_count' = r.blink_count
                /\ now' = IF r.read THEN Some(t) ELSE now
  /\ faces' = Tail(faces)
  /\ UNCHANGED << config, key_q, pc, cap, log_file, log, frames, nfaces, held,
                  action, samples >>

ProcessFace == ProcessFaceAt(Times)

\* main.py: action = "None"; mouse buttons, then the key map.  The input
\* state h is one of `inputs`.
SampleKbMouseFrom(inputs) ==
  /\ pc = "faces"
  /\ faces = <<>>
  /\ variant = "kbmouse"
  /\ \E h \in inputs :
       /\ held' = h
       /\ action' = SampleKbMouse(h)
  /\ pc' = "log"
  /\ UNCHANGED << config, key_q, cap, log_file, log, frames, faces, nfaces,
                  detector_vars, samples >>

\* xbox.py: pygame.event.pump(); action = "None"; the button map.
SampleGamepadFrom(inputs) ==
  /\ pc = "faces"
  /\ faces = <<>>
  /\ variant = "gamepad"
  /\ \E h \in inputs :
       /\ held' = h
       /\ action' = SampleGamepad(h)
  /\ pc' = "log"
  /\ UNCHANGED << config, key_q, cap, log_file, log, frames, faces, nfaces,
                  detector_vars, samples >>

SampleKbMouseStep == SampleKbMouseFrom(LoopKbHeld)
SampleGamepadStep == SampleGamepadFrom(LoopPadHeld)

\* WriteLog that writes the count as it was before the iteration's detector
\* update (the count of the previous record).
WriteLogStale ==
  /\ pc = "log"
  /\ log' = Append(log, [action |-> action,
                         blink_count |-> IF log = <<>> THEN 0
                                         ELSE log[Len(log)].blink_count])
  /\ pc' = "quit"
  /\ UNCHANGED << config, key_q, cap, log_file, frames, faces, nfaces,
                  detector_vars, held, action, samples >>

\* WriteLog that writes a record only when the frame showed a face.
WriteLogIfFace ==
  /\ pc = "log"
  /\ log' = IF nfaces = 0 THEN log
            ELSE Append(log, [action |-> action, blink_count |-> blink_count])
  /\ pc' = "quit"
  /\ UNCHANGED << config, key_q, cap, log_file, frames, faces, nfaces,
                  detector_vars, held, action, samples >>

\* log_file.write(...); log_file.flush()
WriteLog ==
  /\ pc = "log"
  /\ log' = Append(log, [action |-> action, blink_count |-> blink_count])
  /\ pc' = "quit"
  /\ UNCHANGED << config, key_q, cap, log_file, frames, faces, nfaces,
                  detector_vars, held, action, samples >>

\* The user presses 'q' in the display window, which exists from the first
\* cv2.imshow on (the step at pc = "quit").
PressQ ==
  /\ pc \in {"read", "faces", "log", "quit"}
  /\ pc = "quit" \/ Len(log) > 0
  /\ ~key_q
  /\ key_q' = TRUE
  /\ UNCHANGED << config, pc, cap, log_file, log, frames, faces, nfaces,
                  detector_vars, held, action, samples >>

\* cv2.imshow; if cv2.waitKey(1) & 0xFF == ord('q'): break
Quit ==
  /\ pc = "quit"
  /\ key_q
  /\ key_q' = FALSE
  /\ log_file' = "closed"
  /\ cap' = "released"
  /\ pc' = "done"
  /\ UNCHANGED << config, log, frames, faces, nfaces, detector_vars, held,
                  action, samples >>

\* Sleep that does not look at the pending key.
SleepIgnoresKey ==
  /\ pc = "quit"
  /\ pc' = "read"
  /\ UNCHANGED << config, key_q, cap, log_file, log, frames, faces, nfaces,
                  detector_vars, held, action, samples >>

\* no quit key: time.sleep(0.05) and the next iteration
Sleep ==
  /\ pc = "quit"
  /\ ~key_q
  /\ pc' = "read"
  /\ UNCHANGED << config, key_q, cap, log_file, log, frames, faces, nfaces,
                  detector_vars, held, action, samples >>

Next ==
  \/ NoController
  \/ Start
  \/ ReadFrame
  \/ ReadFail
  \/ ProcessFace
  \/ SampleKbMouseStep
  \/ SampleGamepadStep
  \/ WriteLog
  \/ PressQ
  \/ Quit
  \/ Sleep

Spec == Init /\ [][Next]_vars

\* ------------------------------------------------ every way out, explored
\* log_file.write or log_file.flush raises: the exception leaves the with
\* block, which closes the file, and ends the worker thread before
\* cap.release().
WriteFail ==
  /\ pc = "log"
  /\ log_file' = "closed"
  /\ pc' = "crashed"
  /\ UNCHANGED << config, key_q, cap, log, frames, faces, nfaces,
                  detector_vars, held, action, samples >>

\* start_logging: the main thread's sleep loop is interrupted, the bare
\* except swallows it, the interpreter exits and the daemon worker is
\* stopped where it stands, without unwinding.
Interrupt ==
  /\ pc \in {"start", "read", "faces", "log", "quit"}
  /\ pc' = "killed"
  /\ UNCHANGED << config, key_q, cap, log_file, log, frames, faces, nfaces,
                  detector_vars, held, action, samples >>

NextExit ==
  \/ Next
  \/ WriteFail
  \/ Interrupt

SpecExit == Init /\ [][NextExit]_vars

\* ------------------------------------------- the action sampler, explored
\* The first iteration has read a frame without faces and is about to
\* sample; the sampler then runs on every input state of up to MaxHeld
\* held inputs.
InitSampler ==
  /\ variant \in {"kbmouse", "gamepad"}
  /\ joystick_count = IF variant = "gamepad" THEN 1 ELSE 0
  /\ MIN_CLOSE_DURATION = DefaultMinClose
  /\ SMOOTHING_WINDOW = DefaultWindow
  /\ pc = "faces"
  /\ cap = "open"
  /\ log_file = "open"
  /\ log = <<>>
  /\ frames = 1
  /\ faces = <<>>
  /\ nfaces = 0
  /\ blink_state = 0
  /\ close_start_time = None
  /\ blink_count = 0
  /\ ear_buffer = <<>>
  /\ smoothed_ear = None
  /\ now = None
  /\ held = {}
  /\ action = "None"
  /\ key_q = FALSE
  /\ samples = <<>>

SampleKbMouseAll == SampleKbMouseFrom(SetsUpTo(KbCodes, MaxHeld))
SampleGamepadAll == SampleGamepadFrom(SetsUpTo(PadCodes, MaxHeld))

NextSampler ==
  \/ SampleKbMouseAll
  \/ SampleGamepadAll
  \/ WriteLog

SpecSampler == InitSampler /\ [][NextSampler]_vars

\* ----------------------------------------- the smoothing filter, explored
\* ear_buffer = deque(maxlen=SMOOTHING_WINDOW), for every capacity up to the
\* configured one, fed up to MaxSamples samples.
FilterRatios == Ratios \cup {EAR_THRESHOLD}

InitFilter ==
  /\ variant \in {"kbmouse", "gamepad"}
  /\ joystick_count = IF variant = "gamepad" THEN 1 ELSE 0
  /\ MIN_CLOSE_DURATION = DefaultMinClose
  /\ SMOOTHING_WINDOW \in 1..DefaultWindow
  /\ pc = "faces"
  /\ cap = "open"
  /\ log_file = "open"
  /\ log = <<>>
  /\ frames = 1
  /\ faces = <<>>
  /\ nfaces = 0
  /\ blink_state = 0
  /\ close_start_time = None
  /\ blink_count = 0
  /\ ear_buffer = <<>>
  /\ smoothed_ear = None
  /\ now = None
  /\ held = {}
  /\ action = "None"
  /\ key_q = FALSE
  /\ samples = <<>>

\* ear_buffer.append(avg_ear); smoothed_ear = sum(ear_buffer) / len(ear_buffer)
SmoothSample ==
  /\ Len(samples) < MaxSamples
  /\ \E avg_ear \in FilterRatios :
       /\ ear_buffer' = DequeAppend(ear_buffer, avg_ear, SMOOTHING_WINDOW)
       /\ samples' = Append(samples, avg_ear)
  /\ smoothed_ear' = Some(Mean(ear_buffer'))
  /\ UNCHANGED << config, key_q, pc, cap, log_file, log, frames, faces, nfaces,
                  blink_state, close_start_time, blink_count, now, held,
                  action >>

NextFilter == SmoothSample

SpecFilter == InitFilter /\ [][NextFilter]_vars

\* ------------------------------------------- degenerate eyes, explored
\* The frame loop on frames that show at most one face, whose eyes are open,
\* closed, of zero width (p0 = p3), or collapsed to one point.
Eyes ==
  { [A |-> 8, B |-> 8, C |-> 25], [A |-> 4, B |-> 5, C |-> 25],
    [A |-> 4, B |-> 5, C |-> 0], [A |-> 0, B |-> 0, C |-> 0] }

GeometryFaces ==
  {<<>>} \cup {<<AvgEar(left_eye, right_eye)>> : left_eye \in Eyes, right_eye \in Eyes}

InitGeometry ==
  /\ Init
  /\ MIN_CLOSE_DURATION = DefaultMinClose
  /\ variant = "gamepad" => joystick_count > 0

ReadFrameGeometry == ReadFrameFrom(GeometryFaces, MaxIter)

NextGeometry ==
  \/ Start
  \/ ReadFrameGeometry
  \/ ReadFail
  \/ ProcessFace
  \/ SampleKbMouseStep
  \/ SampleGamepadStep
  \/ WriteLog
  \/ PressQ
  \/ Quit
  \/ Sleep

SpecGeometry == InitGeometry /\ [][NextGeometry]_vars

\* ------------------------------------------------ the end-to-end scenario
\* One face per frame with the per-face ratios 0.30, 0.30, 0.18, 0.18, 0.18,
\* 0.32, sample i processed at clock reading i - 1 (0.05 s apart), window 1,
\* MIN_CLOSE_DURATION 0.10 s or 0.20 s.
Scenario ==
  << Hundredths(30), Hundredths(30), Hundredths(18), Hundredths(18),
     Hundredths(18), Hundredths(32) >>

InitScenario ==
  /\ variant \in {"kbmouse", "gamepad"}
  /\ joystick_count = IF variant = "gamepad" THEN 1 ELSE 0
  /\ MIN_CLOSE_DURATION \in {DefaultMinClose, 2 * DefaultMinClose}
  /\ SMOOTHING_WINDOW = 1
  /\ pc = "start"
  /\ cap = "none"
  /\ log_file = "none"
  /\ log = <<>>
  /\ frames = 0
  /\ faces = <<>>
  /\ nfaces = 0
  /\ blink_state = 0
  /\ close_start_time = None
  /\ blink_count = 0
  /\ ear_buffer = <<>>
  /\ smoothed_ear = None
  /\ now = None
  /\ held = {}
  /\ action = "None"
  /\ key_q = FALSE
  /\ samples = <<>>

ReadFrameScenario == ReadFrameFrom({<<Scenario[frames + 1]>>}, Len(Scenario))
ProcessFaceScenario == ProcessFaceAt({frames - 1})

NextScenario ==
  \/ Start
  \/ ReadFrameScenario
  \/ ReadFail
  \/ ProcessFaceScenario
  \/ SampleKbMouseStep
  \/ SampleGamepadStep
  \/ WriteLog
  \/ PressQ
  \/ Quit
  \/ Sleep

SpecScenario == InitScenario /\ [][NextScenario]_vars

\* ------------------------------------------------ frames with several faces
\* The first iteration of the loop with the default configuration, where
\* the detector may return one face more than in Spec, so that the frame can
\* carry the samples 0.18, 0.32, 0.32 (means 0.18, 0.25, 0.273...); the
\* second read fails.
InitFaces ==
  /\ Init
  /\ variant = "gamepad" => joystick_count > 0

ReadFrameFaces == ReadFrameFrom(SeqsUpTo(Ratios, MaxFaces + 1), 1)

NextFaces ==
  \/ Start
  \/ ReadFrameFaces
  \/ ReadFail
  \/ ProcessFace
  \/ SampleKbMouseStep
  \/ SampleGamepadStep
  \/ WriteLog
  \/ PressQ
  \/ Quit
  \/ Sleep

SpecFaces == InitFaces /\ [][NextFaces]_vars

\* ------------------------------------------------ the loop, small windows
\* The loop with a window of 1 or 2 samples, so that the frames of a run
\* fill the buffer and evict from it, with frames that show no face in
\* between.
InitWindow ==
  /\ variant \in {"kbmouse", "gamepad"}
  /\ joystick_count = IF variant = "gamepad" THEN 1 ELSE 0
  /\ MIN_CLOSE_DURATION = DefaultMinClose
  /\ SMOOTHING_WINDOW \in 1..2
  /\ pc = "start"
  /\ cap = "none"
  /\ log_file = "none"
  /\ log = <<>>
  /\ frames = 0
  /\ faces = <<>>
  /\ nfaces = 0
  /\ blink_state = 0
  /\ close_start_time = None
  /\ blink_count = 0
  /\ ear_buffer = <<>>
  /\ smoothed_ear = None
  /\ now = None
  /\ held = {}
  /\ action = "None"
  /\ key_q = FALSE
  /\ samples = <<>>

NextWindow ==
  \/ Start
  \/ ReadFrame
  \/ ReadFail
  \/ ProcessFace
  \/ SampleKbMouseStep
  \/ SampleGamepadStep
  \/ WriteLog
  \/ PressQ
  \/ Quit
  \/ Sleep

SpecWindow == InitWindow /\ [][NextWindow]_vars

\* ------------------------------------------------ a frame without a face
\* Three iterations with a window of 1 and arbitrary clock readings: the
\* first and the third frame show at most one face, the second shows none.
GapFrames(k) == IF k = 2 THEN {<<>>} ELSE SeqsUpTo(Ratios, 1)

ReadFrameGap == ReadFrameFrom(GapFrames(frames + 1), 3)

NextGap ==
  \/ Start
  \/ ReadFrameGap
  \/ ReadFail
  \/ ProcessFace
  \/ SampleKbMouseStep
  \/ SampleGamepadStep
  \/ WriteLog
  \/ PressQ
  \/ Quit
  \/ Sleep

SpecGap == InitScenario /\ [][NextGap]_vars

\* ------------------------------------------------ the two entry points
\* The loop of either entry point on three frames of at most one face, where
\* `samples` records what the blink pipeline was fed: each face's ratio and
\* the clock reading offered to its update.
ReadFrameTwin == ReadFrameFrom(SeqsUpTo(Ratios, 1), 3)

\* ProcessFace, recording its inputs.
ProcessFaceRecorded ==
  /\ pc = "faces"
  /\ faces # <<>>
  /\ LET avg_ear == Head(faces)
         buf == DequeAppend(ear_buffer, avg_ear, SMOOTHING_WINDOW)
         s == Mean(buf)
     IN /\ ear_buffer' = buf
        /\ smoothed_ear' = Some(s)
        /\ \E t \in Times :
             LET r == IF variant = "kbmouse"
                      THEN RiseAndFall(blink_state, close_start_time,
                                       blink_count, s, t, MIN_CLOSE_DURATION)
                      ELSE RiseAndFallPad(blink_state, close_start_time,
                                          blink_count, s, t, MIN_CLOSE_DURATION)
             IN /\ blink_state' = r.blink_state
                /\ close_start_time' = r.close_start_time
                /\ blink_count' = r.blink_count
                /\ now' = IF r.read THEN Some(t) ELSE now
                /\ samples' = Append(samples, [avg_ear |-> avg_ear, t |-> t])
  /\ faces' = Tail(faces)
  /\ UNCHANGED << config, key_q, pc, cap, log_file, log, frames, nfaces, held,
                  action >>

NextTwin ==
  \/ Start
  \/ ReadFrameTwin
  \/ ReadFail
  \/ ProcessFaceRecorded
  \/ SampleKbMouseStep
  \/ SampleGamepadStep
  \/ WriteLog
  \/ PressQ
  \/ Quit
  \/ Sleep

SpecTwin == InitWindow /\ [][NextTwin]_vars

\* The blink pipeline of src/main.py run from the initial state on the
\* recorded inputs h, with window w and gate minclose.
RECURSIVE KbMousePipeline(_, _, _)
KbMousePipeline(h, w, minclose) ==
  IF h = <<>>
  THEN [ear_buffer |-> <<>>, blink_state |-> 0, close_start_time |-> None,
        blink_count |-> 0]
  ELSE LET p == KbMousePipeline(SubSeq(h, 1, Len(h) - 1), w, minclose)
           x == h[Len(h)]
           buf == DequeAppend(p.ear_buffer, x.avg_ear, w)
           r == RiseAndFall(p.blink_state, p.close_start_time, p.blink_count,
                            Mean(buf), x.t, minclose)
       IN [ear_buffer |-> buf, blink_state |-> r.blink_state,
           close_start_time |-> r.close_start_time,
           blink_count |-> r.blink_count]

\* ================================================================ claims
\* A step of the body of `for face in faces` (one detector update).
DetectorUpdate == pc = "faces" /\ faces # <<>> /\ faces' # faces

\* C1: in a detector update with smoothed ratio s: OPEN and s < T gives
\* CLOSED with close_start_time the clock reading just taken; CLOSED and
\* s > T gives OPEN with close_start_time cleared; otherwise (s = T
\* included) state, close_start_time and blink count are unchanged.
C1_Transitions ==
  [][DetectorUpdate =>
       LET s == smoothed_ear'[1]
       IN IF blink_state = 0 /\ s < EAR_THRESHOLD
          THEN /\ blink_state' = 1
               /\ now' # None
               /\ close_start_time' = now'
          ELSE IF blink_state = 1 /\ s > EAR_THRESHOLD
          THEN /\ blink_state' = 0
               /\ close_start_time' = None
          ELSE UNCHANGED << blink_state, close_start_time, blink_count >>]_vars

\* C1 witness: an update left the state CLOSED on a smoothed ratio equal to
\* the threshold.
C1_Witness ==
  /\ pc = "faces"
  /\ blink_state = 1
  /\ close_start_time # None
  /\ smoothed_ear = Some(EAR_THRESHOLD)

\* C2: the blink count changes only on a CLOSED->OPEN transition, by +1
\* when the clock reading at opening minus the one stored at closing is
\* >= MIN_CLOSE_DURATION and not at all when it is less; no other step
\* changes it.
C2_CountRule ==
  [][IF blink_state = 1 /\ blink_state' = 0
     THEN /\ DetectorUpdate
          /\ close_start_time # None
          /\ now' # None
          /\ blink_count' = IF now'[1] - close_start_time[1] >= MIN_CLOSE_DURATION
                            THEN blink_count + 1 ELSE blink_count
     ELSE blink_count' = blink_count]_vars

\* C2 witness: with the default gate, a closure lasting exactly
\* MIN_CLOSE_DURATION has been counted.
C2_Witness ==
  /\ MIN_CLOSE_DURATION = DefaultMinClose
  /\ blink_state = 0
  /\ blink_count = 1
  /\ now = Some(DefaultMinClose)

\* C3 (as claimed): with MIN_CLOSE_DURATION = 0 every CLOSED->OPEN
\* transition increments the blink count, whatever the clock readings.
C3_GateDisabled ==
  [][(MIN_CLOSE_DURATION = 0 /\ blink_state = 1 /\ blink_state' = 0)
       => blink_count' = blink_count + 1]_vars

LogNonDecreasing ==
  \A i \in 1..Len(log) : \A j \in i..Len(log) :
    log[i].blink_count <= log[j].blink_count

\* C4: the blink count is never negative, no step decreases it, and the
\* counts in successive log records are non-decreasing.
C4_Monotone ==
  /\ [](blink_count >= 0 /\ LogNonDecreasing)
  /\ [][blink_count' >= blink_count]_vars

\* C4 witness: two records, the count having risen between them.
C4_Witness ==
  /\ Len(log) = 2
  /\ log[1].blink_count = 0
  /\ log[2].blink_count = 1

\* C5: every step of an iteration whose frame showed no face, from the
\* frame read to the end of the iteration, leaves blink state,
\* close_start_time, blink count and rolling buffer as they were.
C5_NoFaceHolds ==
  [][(frames' > 0 /\ nfaces' = 0)
       => UNCHANGED << blink_state, close_start_time, blink_count,
                       ear_buffer >>]_vars

\* C5 witness: the second iteration saw no face and is past its log write,
\* the detector still CLOSED with the first iteration's sample buffered.
C5_Witness ==
  /\ frames = 2
  /\ nfaces = 0
  /\ pc = "quit"
  /\ blink_state = 1
  /\ Len(ear_buffer) = 1

\* C6: the log holds one record per frame acquired: as many records as
\* frames once the iteration has written, one fewer before that.
C6_OneRecordPerFrame ==
  Len(log) = IF pc \in {"faces", "log"} THEN frames - 1 ELSE frames

\* C6 witness: two iterations, the second with several faces, two records.
C6_Witness ==
  /\ frames = 2
  /\ nfaces = 2
  /\ pc = "quit"
  /\ Len(log) = 2

RECURSIVE SumRange(_, _, _)
SumRange(q, lo, hi) == IF lo > hi THEN 0 ELSE q[lo] + SumRange(q, lo + 1, hi)

\* The arithmetic mean of the last n elements of q.
MeanOfLast(q, n) == SumRange(q, Len(q) - n + 1, Len(q)) \div n

\* C7: after k samples the smoothed ratio is the mean of all k when
\* k <= W and of the last W when k > W.
C7_SmoothedIsWindowMean ==
  samples # <<>> =>
    smoothed_ear = Some(MeanOfLast(samples,
                                   IF Len(samples) <= SMOOTHING_WINDOW
                                   THEN Len(samples) ELSE SMOOTHING_WINDOW))

\* C7 witness: more samples than the configured window, the oldest one
\* differing from the rest.
C7_Witness ==
  /\ SMOOTHING_WINDOW = DefaultWindow
  /\ Len(samples) > SMOOTHING_WINDOW
  /\ samples[1] # samples[Len(samples)]
  /\ Len(ear_buffer) = SMOOTHING_WINDOW

\* The label of the first entry of map, in its order, whose code is held.
FirstHeldLabel(map, h) ==
  IF \A i \in 1..Len(map) : map[i][1] \notin h THEN "None"
  ELSE LET first == CHOOSE i \in 1..Len(map) :
                      /\ map[i][1] \in h
                      /\ \A j \in 1..(i - 1) : map[j][1] \notin h
       IN map[first][2]

Sampled(v) == pc = "log" /\ variant = v

\* C8 (as claimed): no mouse button pressed and several keys held, the
\* label is that of the first held key in the key map's order.
C8_FirstKeyWins ==
  (/\ Sampled("kbmouse")
   /\ VK_LBUTTON \notin held
   /\ VK_RBUTTON \notin held
   /\ Cardinality(held) >= 2)
    => action = FirstHeldLabel(key_map, held)

KeyLabels == {key_map[i][2] : i \in 1..Len(key_map)}

\* C9: left button gives "Left Click" whatever else is pressed; otherwise
\* right button gives "Right Click" whatever keys are pressed; nothing
\* pressed gives "None"; a key label appears only with no button pressed.
C9_ClickPriority ==
  Sampled("kbmouse") =>
    /\ VK_LBUTTON \in held => action = "Left Click"
    /\ (VK_LBUTTON \notin held /\ VK_RBUTTON \in held) => action = "Right Click"
    /\ held = {} => action = "None"
    /\ action \in KeyLabels => (VK_LBUTTON \notin held /\ VK_RBUTTON \notin held)

\* C9 witness: right button and a key pressed together, sampled.
C9_Witness ==
  /\ Sampled("kbmouse")
  /\ held = {VK_RBUTTON, key_map[1][1]}
  /\ action = "Right Click"

\* C10: the gamepad label is that of the first held button in the button
\* map's order, "None" when no mapped button is held.
C10_FirstButtonWins ==
  Sampled("gamepad") => action = FirstHeldLabel(controller_map, held)

\* C10 witness: B and RB held together, sampled as "B".
C10_Witness ==
  /\ Sampled("gamepad")
  /\ held = {controller_map[2][1], controller_map[6][1]}
  /\ action = "B"

\* C11 (as claimed): a face with a degenerate eye (its avg_ear is inf or
\* nan) inserts no sample and leaves blink state, close_start_time and
\* blink count as they were.
C11_DegenerateSkipped ==
  [][(DetectorUpdate /\ Head(faces) \in {inf, nan})
       => UNCHANGED << ear_buffer, blink_state, close_start_time,
                       blink_count >>]_vars

Fresh ==
  /\ blink_state = 0
  /\ close_start_time = None
  /\ blink_count = 0
  /\ ear_buffer = <<>>

\* C12: gamepad variant without a gamepad: the worker returns at once, or
\* has not moved yet; no frame is acquired, capture device and log file are
\* never opened, nothing is logged, the detector is untouched, and nothing
\* follows the return.
C12_NoControllerNeverStarts ==
  /\ []((variant = "gamepad" /\ joystick_count = 0) =>
          /\ pc \in {"start", "returned"}
          /\ frames = 0
          /\ cap = "none"
          /\ log_file = "none"
          /\ log = <<>>
          /\ Fresh)
  /\ [][pc # "returned"]_vars

\* C12 witness: the gamepad worker has returned for want of a gamepad.
C12_Witness ==
  /\ variant = "gamepad"
  /\ joystick_count = 0
  /\ pc = "returned"

\* C13: a failed cap.read() (the worker leaves pc = "read" without a new
\* frame) ends the loop with no detector update, no sampling and no log
\* write, and no step follows the end of the loop.
C13_ReadFailEnds ==
  [][/\ pc # "done"
     /\ (pc = "read" /\ pc' # "read" /\ frames' = frames) =>
          /\ pc' = "done"
          /\ UNCHANGED << detector_vars, held, action, log >>]_vars

\* C13 witness: the loop has ended after one complete iteration with the
\* 'q' press still unread, so it ended on a failed read and not on the key.
C13_Witness ==
  /\ pc = "done"
  /\ frames = 1
  /\ Len(log) = 1
  /\ key_q

\* C14: the quit key is looked at only once the iteration's record is
\* written; a pending press stays pending until that check, the check that
\* finds it ends the loop, and while it is pending the only write is the
\* one that leads to the check.
C14_QuitAtNextCheck ==
  /\ [](pc = "quit" => Len(log) = frames)
  /\ [][key_q => /\ (~key_q' => (pc = "quit" /\ pc' = "done"))
                 /\ (pc = "quit" => pc' = "done")
                 /\ (log' # log => /\ pc = "log"
                                   /\ pc' = "quit"
                                   /\ Len(log') = Len(log) + 1)]_vars

\* C14 witness: the second iteration has not written its record yet and a
\* 'q' press is pending.
C14_Witness ==
  /\ key_q
  /\ pc = "log"
  /\ frames = 2
  /\ Len(log) = 1

\* C15 (as claimed): the log file handle is open exactly while the loop
\* runs; once the worker has ended, by any way out, it is not open.
C15_LogClosedOnEveryExit ==
  log_file = "open" <=> pc \in {"read", "faces", "log", "quit"}

\* Sample i of the scenario has been processed and sample i + 1 has not
\* been read.
Processed(i) == frames = i /\ faces = <<>>

\* C16: in the scenario the state is OPEN through sample 2, CLOSED from
\* sample 3 (closed at reading 2) through sample 5, and OPEN again at
\* sample 6 (reading 5, so closed for 3 ticks = 0.15 s); the count is 0
\* until then and ends at 1 with MIN_CLOSE_DURATION 0.10 s, at 0 with
\* 0.20 s.
C16_Scenario ==
  /\ (Processed(1) \/ Processed(2) \/ (frames = 3 /\ faces # <<>>)) =>
       (blink_state = 0 /\ close_start_time = None /\ blink_count = 0)
  /\ (Processed(3) \/ Processed(4) \/ Processed(5)) =>
       (blink_state = 1 /\ close_start_time = Some(2) /\ blink_count = 0)
  /\ Processed(6) =>
       /\ blink_state = 0
       /\ now = Some(5)
       /\ blink_count = IF MIN_CLOSE_DURATION = DefaultMinClose THEN 1 ELSE 0

\* C16 witness: the scenario has run to its sixth sample under the 0.10 s
\* gate and counted the blink.
C16_Witness ==
  /\ Processed(6)
  /\ MIN_CLOSE_DURATION = DefaultMinClose
  /\ blink_count = 1
  /\ pc = "quit"

\* C17: close_start_time is present exactly when the blink state is CLOSED,
\* and before the first frame the state is OPEN with no close_start_time
\* and a blink count of 0.
C17_StartTimeIffClosed ==
  /\ (close_start_time # None) <=> (blink_state = 1)
  /\ frames = 0 =>
       (blink_state = 0 /\ close_start_time = None /\ blink_count = 0)

\* C17 witness: inside the loop the eyes are closed and the closing began at
\* clock reading 1.
C17_Witness ==
  /\ pc = "quit"
  /\ blink_state = 1
  /\ close_start_time = Some(1)
  /\ frames = 2

\* C18 as stated, for the first iteration (which starts OPEN with a count
\* of 0): the state changes at most once, so once CLOSED it does not reopen
\* before the next frame, and the count rises by at most 1, whatever the
\* number of faces.
C18_OncePerIteration ==
  [][(frames = 1 /\ frames' = 1) =>
       /\ (blink_state = 1 => blink_state' = 1)
       /\ blink_count' <= 1]_vars

\* C18 amended: the transitions are evaluated once per detected face. The
\* state and the count change only in the step that consumes one face of
\* the frame, each such step changes the state at most once and raises the
\* count by at most 1, and an iteration has one such step per face.
C18_OncePerFace ==
  /\ [](Len(faces) <= nfaces)
  /\ [](pc \in {"log", "quit"} => faces = <<>>)
  /\ [][(blink_state' # blink_state \/ blink_count' # blink_count) =>
          /\ DetectorUpdate
          /\ Len(faces') = Len(faces) - 1
          /\ blink_count' - blink_count \in {0, 1}]_vars

\* C18 witness: a first frame with three faces has closed and reopened the
\* state and counted a blink within the one iteration.
C18_Witness ==
  /\ frames = 1
  /\ nfaces = 3
  /\ faces = <<>>
  /\ pc = "quit"
  /\ blink_state = 0
  /\ blink_count = 1

\* The first iteration's detector update is over and its frame showed a
\* face.
FirstFrameDone == frames = 1 /\ pc \in {"log", "quit"} /\ nfaces >= 1

\* C19 as stated, for the first iteration (empty buffer, OPEN, count 0):
\* buffer, state, close_start_time and count are what processing only the
\* last face would leave, i.e. a buffer of that one sample and a state
\* decided by that sample alone.
C19_LastFaceWins ==
  FirstFrameDone =>
    LET last == ear_buffer[Len(ear_buffer)]
    IN /\ ear_buffer = << last >>
       /\ blink_state = IF last < EAR_THRESHOLD THEN 1 ELSE 0
       /\ (close_start_time # None) <=> (last < EAR_THRESHOLD)
       /\ blink_count = 0

\* The blink state that the samples q[1..k], appended in this order to an
\* empty buffer of at least k places, leave behind from OPEN.
RECURSIVE StateAfter(_, _)
StateAfter(q, k) ==
  IF k = 0 THEN 0
  ELSE LET p == StateAfter(q, k - 1)
           s == MeanOfLast(SubSeq(q, 1, k), k)
       IN IF s < EAR_THRESHOLD /\ p = 0 THEN 1
          ELSE IF s > EAR_THRESHOLD /\ p = 1 THEN 0
          ELSE p

\* C19 amended: every face of the frame is processed, in detection order.
\* After the first iteration the buffer holds one sample per face (up to
\* the window), the blink state is the result of evaluating the transitions
\* after each face in turn, and only the smoothed ratio is the last face's:
\* the mean of the buffer after the last insertion.
C19_EveryFaceProcessed ==
  FirstFrameDone =>
    /\ Len(ear_buffer) =
         IF nfaces <= SMOOTHING_WINDOW THEN nfaces ELSE SMOOTHING_WINDOW
    /\ smoothed_ear = Some(MeanOfLast(ear_buffer, Len(ear_buffer)))
    /\ nfaces <= SMOOTHING_WINDOW =>
         blink_state = StateAfter(ear_buffer, Len(ear_buffer))

\* C19 witness: a first frame with the faces 0.18 and 0.32; both samples
\* are in the buffer and the state is CLOSED (mean 0.25), where the last
\* face alone (0.32) would have left it OPEN.
C19_Witness ==
  /\ FirstFrameDone
  /\ ear_buffer = << Hundredths(18), Hundredths(32) >>
  /\ blink_state = 1
  /\ blink_count = 0

\* The order in which the worker moves through its steps.
StepOrder ==
  { << "start", "read" >>, << "start", "returned" >>, << "read", "faces" >>,
    << "read", "done" >>, << "faces", "log" >>, << "log", "quit" >>,
    << "quit", "read" >>, << "quit", "done" >> }

\* C20: an iteration runs detector update, action sampling, log write and
\* cancellation check in this order; iteration N + 1 begins only after
\* iteration N's record is written; and record N carries the blink count
\* as it is after iteration N's detector update.
C20_StepOrder ==
  /\ [](pc \in {"faces", "log"} => Len(log) = frames - 1)
  /\ [](pc = "quit" =>
         (Len(log) = frames /\ log[frames].blink_count = blink_count))
  /\ [][/\ pc' # pc => << pc, pc' >> \in StepOrder
        /\ detector_vars' # detector_vars => (pc = "faces" /\ pc' = "faces")
        /\ << held, action >>' # << held, action >> =>
             (pc = "faces" /\ pc' = "log")
        /\ log' # log =>
             /\ pc = "log" /\ pc' = "quit"
             /\ log' = Append(log, [action |-> action,
                                    blink_count |-> blink_count])
        /\ frames' # frames =>
             (pc = "read" /\ frames' = frames + 1 /\ Len(log) = frames)]_vars

\* C20 witness: a blink completed by the two faces of the second frame is
\* in the second record, at the cancellation check of that iteration.
C20_Witness ==
  /\ pc = "quit"
  /\ frames = 2
  /\ nfaces = 2
  /\ Len(log) = 2
  /\ log[1].blink_count = 0
  /\ log[2].blink_count = 1
  /\ blink_count = 1

\* C21: the buffer never holds more than W samples, and every computation
\* of the smoothed ratio follows an append, so it divides the sum of a
\* buffer of at least one sample by its length, on the first face and on a
\* face that follows frames without one.
C21_BufferBounded ==
  /\ [](Len(ear_buffer) <= SMOOTHING_WINDOW)
  /\ [](smoothed_ear # None => ear_buffer # <<>>)
  /\ [][DetectorUpdate =>
          /\ Len(ear_buffer') >= 1
          /\ ear_buffer'[Len(ear_buffer')] = Head(faces)
          /\ smoothed_ear' =
               Some(MeanOfLast(ear_buffer', Len(ear_buffer')))]_vars

\* C21 witness: with a window of 1 the fourth sample of the run has evicted
\* the third and is the smoothed ratio.
C21_Witness ==
  /\ SMOOTHING_WINDOW = 1
  /\ frames = 2
  /\ nfaces = 2
  /\ faces = <<>>
  /\ pc = "log"
  /\ Len(log) = 1
  /\ ear_buffer = << Hundredths(18) >>
  /\ smoothed_ear = Some(Hundredths(18))

\* C22: when the loop has ended and the worker has finished, by the quit
\* key, by a failed frame read or by a log write failure that left the
\* loop, the capture device has been released.
C22_CaptureReleasedOnExit ==
  pc \in {"done", "crashed"} => cap = "released"

\* C23: the duration compared with MIN_CLOSE_DURATION runs from the clock
\* reading of the closing update to that of the reopening update. While
\* the state stays CLOSED, through frames without a face and samples that
\* do not exceed the threshold, the stored closing time is kept; the next
\* update whose smoothed ratio exceeds the threshold reopens the state and
\* counts exactly when its reading is at least MIN_CLOSE_DURATION later.
C23_DurationSpansIterations ==
  /\ [][(blink_state = 1 /\ blink_state' = 1) =>
          close_start_time' = close_start_time]_vars
  /\ [][(DetectorUpdate /\ blink_state = 1
            /\ smoothed_ear'[1] > EAR_THRESHOLD) =>
          /\ blink_state' = 0
          /\ now' # None
          /\ (now'[1] - close_start_time[1] >= MIN_CLOSE_DURATION =>
                blink_count' = blink_count + 1)
          /\ (now'[1] - close_start_time[1] < MIN_CLOSE_DURATION =>
                blink_count' = blink_count)]_vars

\* C23 witness: one sample below the threshold in the first frame, no face
\* in the second, one sample above it in the third, read
\* MIN_CLOSE_DURATION after the closing: the blink is counted.
C23_Witness ==
  /\ frames = 3
  /\ faces = <<>>
  /\ nfaces = 1
  /\ Len(log) = 2
  /\ MIN_CLOSE_DURATION = DefaultMinClose
  /\ now = Some(DefaultMinClose)
  /\ blink_state = 0
  /\ blink_count = 1

\* C24: whichever entry point runs and whatever the input device reports,
\* rolling buffer, blink state, close_start_time and blink count are what
\* the pipeline of src/main.py yields from the initial state on the same
\* ratios and clock readings; so the two entry points agree after every
\* iteration.
C24_SamePipeline ==
  LET p == KbMousePipeline(samples, SMOOTHING_WINDOW, MIN_CLOSE_DURATION)
  IN /\ ear_buffer = p.ear_buffer
     /\ blink_state = p.blink_state
     /\ close_start_time = p.close_start_time
     /\ blink_count = p.blink_count

\* C24 witness: the gamepad entry point, a button held, has counted a blink
\* that lasted exactly MIN_CLOSE_DURATION and closed again on the third
\* sample.
C24_Witness ==
  /\ variant = "gamepad"
  /\ held # {}
  /\ pc = "quit"
  /\ Len(samples) = 3
  /\ samples[2].t - samples[1].t = MIN_CLOSE_DURATION
  /\ blink_count = 1
  /\ blink_state = 1

====
